---- MODULE Spec2Model ----
(***************************************************************************)
(* Model of src/lambda/kinesis_processor.py: the Kinesis -> Lambda -> S3   *)
(* stream processor.  lambda_handler is modelled per invocation as         *)
(* Invoke (configuration check, StreamProcessor construction), one         *)
(* ProcessRecord step per iteration of the for loop, and Finish            *)
(* (get_summary, the three _publish_metrics calls, the returned response). *)
(* The S3 bucket and the wall clock are shared by all invocations.         *)
(*                                                                         *)
(* Not modelled: partition_key and processing_time_ms of ProcessingResult, *)
(* start_time and the elapsed time and rates of get_summary, the body and  *)
(* metadata of the stored object, and the log lines; none of them feeds a  *)
(* branch of the code or the response.                                     *)
(***************************************************************************)
EXTENDS Integers, Sequences, FiniteSets, TLC

\* ---------------------------------------------------------------- bounds
\* Longest batch delivered to one invocation under Spec.
MaxBatch == 2
\* Longest batch delivered to one invocation under SpecConc.
MaxConcBatch == 1
\* The wall clock runs over the seconds 0..MaxClock.
MaxClock == 1
\* Seconds per hour partition of the scaled clock.
HourLen == 2

\* ------------------------------------------------------------ value sets
\* Python's None / an absent dict key, and a present value.
None == <<>>
Some(x) == <<x>>

\* Invocations of lambda_handler; the host may run them concurrently.
Invocations == {"inv1", "inv2"}

\* Values of os.environ.get('DATA_BUCKET_NAME'): unset, empty, set.
EnvValues == {None, Some(""), Some("test-bucket")}

\* The 'data' field of a record, by the first stage of line 137-138 that
\* rejects it ("JsonObject": none does).
Payloads == {"NotAString", "BadPadding", "NonUtf8Bytes", "NotJsonText", "JsonObject"}

\* Sequence numbers a record may carry.
SequenceNumbers == {"s1", "s2"}

\* A record of the event: both keys may be missing.
Records == [sequenceNumber : {None} \cup {Some(s) : s \in SequenceNumbers},
            data : {None} \cup {Some(p) : p \in Payloads}]

\* The records of the concurrent specification: one that parses and one
\* that does not.
ConcRecords == [sequenceNumber : {Some("s1")},
                data : {Some("NotJsonText"), Some("JsonObject")}]

\* uuid.uuid4().hex[:8] of line 148: 32 random bits, so two draws may agree.
Suffixes == {"0a1b2c3d", "ffffffff"}

\* str(uuid.uuid4()) of line 131, drawn for the k-th record of invocation i:
\* 122 random bits, taken to be a fresh token at every draw.
uuid4(i, k) == "uuid-" \o i \o "-" \o ToString(k)

Batches(R, n) == UNION {[1..k -> R] : k \in 0..n}

VARIABLES
    pc,           \* per invocation: "idle", "loop", "done" (returned), "raised"
    bucket_name,  \* per invocation: the environment value read at line 218
    batch,        \* per invocation: event.get('Records', [])
    idx,          \* per invocation: position of the for loop of line 227
    processor,    \* per invocation: None or Some(reference to a StreamProcessor)
    heap,         \* StreamProcessor objects by reference: None or Some(fields)
    results,      \* per invocation: the list `results` of line 226
    hist,         \* per invocation: the calls of process_record made so far, each
                  \* with the record's index, the result and the upload attempted
    metrics,      \* per invocation: put_metric_data calls that went through, warnings
    response,     \* per invocation: None or Some(the returned dict)
    s3,           \* the bucket: set of [key, owner], owner the record whose body it holds
    clock         \* datetime.utcnow() / time.time(), in whole seconds

vars == <<pc, bucket_name, batch, idx, processor, heap, results, hist, metrics,
          response, s3, clock>>

\* ------------------------------------------------- StreamProcessor (pure)
\* StreamProcessor.__init__: the bucket as read from the environment, fresh
\* counters.
StreamProcessor_init(bucket) ==
    [bucket_name |-> bucket, prefix |-> "raw/",
     records_processed |-> 0, records_failed |-> 0]

\* _get_partition_path: prefix/year=/month=/day=/hour= of the timestamp; the
\* four levels are the hour the second falls in.
get_partition_path(self, timestamp) == <<self.prefix, timestamp \div HourLen>>

\* Lines 145-149: s3://bucket/ + partition path + data_<second>_<8 hex>.json.
OutputPath(self, timestamp, suffix) ==
    [bucket |-> self.bucket_name,
     key |-> [partition |-> get_partition_path(self, timestamp),
              file |-> <<timestamp, suffix>>]]

\* Line 154: output_path.replace("s3://<bucket>/", ''), the object key.
ObjectKey(output_path) == output_path.key

\* An exception value: its class and str(e).
Exc(type, msg) == [type |-> type, msg |-> msg]
Ok(v) == [ok |-> TRUE, val |-> v, exc |-> None]
Raise(e) == [ok |-> FALSE, val |-> None, exc |-> Some(e)]

\* record['data'] of line 137: KeyError when the key is missing.
GetData(record) ==
    IF record.data = None THEN Raise(Exc("KeyError", "'data'"))
    ELSE Ok(record.data[1])

\* base64.b64decode of line 137.
b64decode(data) ==
    CASE data = "NotAString" ->
           Raise(Exc("TypeError", "argument should be a bytes-like object or ASCII string"))
      [] data = "BadPadding" -> Raise(Exc("binascii.Error", "Incorrect padding"))
      [] OTHER -> Ok(data)

\* bytes.decode('utf-8') of line 137.
utf8_decode(bytes) ==
    IF bytes = "NonUtf8Bytes"
    THEN Raise(Exc("UnicodeDecodeError", "'utf-8' codec can't decode byte 0xff"))
    ELSE Ok(bytes)

\* json.loads of line 138.
json_loads(text) ==
    IF text = "NotJsonText"
    THEN Raise(Exc("JSONDecodeError", "Expecting value: line 1 column 1 (char 0)"))
    ELSE Ok(text)

\* Lines 137-138 in order: the first stage that raises ends the chain.
DecodeAndParse(record) ==
    LET d == GetData(record) IN
    IF ~d.ok THEN d ELSE
    LET b == b64decode(d.val) IN
    IF ~b.ok THEN b ELSE
    LET t == utf8_decode(b.val) IN
    IF ~t.ok THEN t ELSE json_loads(t.val)

\* s3_client.put_object of line 152: it completes or raises.
put_object(key, succeeds) ==
    IF succeeds THEN Ok(key)
    ELSE Raise(Exc("ClientError", "An error occurred when calling the PutObject operation"))

\* Line 131: record.get('sequenceNumber', str(uuid.uuid4())).
RecordId(record, generated) ==
    IF record.sequenceNumber = None THEN generated ELSE record.sequenceNumber[1]

\* Variant of Caught: `except ValueError`, which lets KeyError, TypeError and
\* the upload's error through.
Caught_onlyValueError(exc) ==
    exc.type \in {"binascii.Error", "UnicodeDecodeError", "JSONDecodeError"}

\* Line 176, `except Exception`: which exceptions the handler of the try catches.
Caught(exc) ==
    exc.type \in {"KeyError", "TypeError", "binascii.Error", "UnicodeDecodeError",
                  "JSONDecodeError", "ClientError"}

\* Variant of OnSuccess: the increment is missing.
OnSuccess_noCount(self) == self

\* Line 166: self.records_processed += 1.
OnSuccess(self) == [self EXCEPT !.records_processed = @ + 1]

\* Variants of OnFailure: the increment is missing; the wrong counter is
\* incremented.
OnFailure_noCount(self) == self

OnFailure_countsProcessed(self) == [self EXCEPT !.records_processed = @ + 1]

\* Line 177: self.records_failed += 1.
OnFailure(self) == [self EXCEPT !.records_failed = @ + 1]

\* Lines 168-174 and 180-186: the ProcessingResult of a record.
SuccessResult(record_id, output_path) ==
    [record_id |-> record_id, success |-> TRUE,
     output_path |-> Some(output_path), error_message |-> None]

FailureResult(record_id, exc) ==
    [record_id |-> record_id, success |-> FALSE,
     output_path |-> None, error_message |-> Some(exc.msg)]

\* The try block, lines 134-174: decode, parse, build the path, upload.  `put`
\* is the upload attempted, if the block got that far.
TryBody(self, record, now, suffix, s3ok) ==
    LET dec == DecodeAndParse(record) IN
    IF ~dec.ok THEN [exc |-> dec.exc, put |-> None, output_path |-> None]
    ELSE LET path == OutputPath(self, now, suffix)
             up == put_object(ObjectKey(path), s3ok)
         IN [exc |-> up.exc,
             put |-> Some([key |-> ObjectKey(path), ok |-> up.ok]),
             output_path |-> IF up.ok THEN Some(path) ELSE None]

\* process_record: the result it returns, the processor after it, the upload
\* it attempted, and whether an exception left it.
process_record(self, record, now, generated, suffix, s3ok) ==
    LET record_id == RecordId(record, generated)
        body == TryBody(self, record, now, suffix, s3ok)
    IN IF body.exc = None
       THEN [raised |-> FALSE, self |-> OnSuccess(self), put |-> body.put,
             result |-> Some(SuccessResult(record_id, body.output_path[1]))]
       ELSE IF Caught(body.exc[1])
       THEN [raised |-> FALSE, self |-> OnFailure(self), put |-> body.put,
             result |-> Some(FailureResult(record_id, body.exc[1]))]
       ELSE [raised |-> TRUE, self |-> self, put |-> body.put, result |-> None]

\* get_summary: the two counts, lines 193-194.
get_summary(self) ==
    [records_processed |-> self.records_processed,
     records_failed |-> self.records_failed]

\* Variant of publish_metrics: no try/except, the sink's exception leaves
\* the method.
publish_metrics_noTry(m, metric_name, value, sinkOk) ==
    IF m.raised THEN m
    ELSE IF sinkOk
    THEN [m EXCEPT !.emitted = Append(@, <<metric_name, value>>)]
    ELSE [m EXCEPT !.raised = TRUE]

\* _publish_metrics: put_metric_data goes through or raises; the except of
\* line 95 logs a warning and returns.  m.raised says an exception left an
\* earlier call, after which lambda_handler makes no further call.
publish_metrics(m, metric_name, value, sinkOk) ==
    IF m.raised THEN m
    ELSE IF sinkOk
    THEN [m EXCEPT !.emitted = Append(@, <<metric_name, value>>)]
    ELSE [m EXCEPT !.warnings = @ + 1]

\* Variant of ConfigMissing: the check of line 219 is missing.
ConfigMissing_unchecked(value) == FALSE

\* Line 219: `if not bucket_name` (unset or empty).
ConfigMissing(value) == value = None \/ value[1] = ""

\* Variant of NewProcessorRef: one processor object at module level, which
\* every invocation uses.
NewProcessorRef_moduleLevel(i) == "inv1"

\* Line 223: `processor` is a new object, local to the invocation.
NewProcessorRef(i) == i

\* Variant of results_append: results.insert(0, {...}).
results_append_prepend(rs, result) ==
    <<[sequenceNumber |-> result.record_id, success |-> result.success,
       error |-> result.error_message]>> \o rs

\* Lines 229-233: results.append({...}).
results_append(rs, result) ==
    Append(rs, [sequenceNumber |-> result.record_id, success |-> result.success,
                error |-> result.error_message])

\* Variant of for_next: a failed record is processed again.
for_next_retryFailed(k, result) == IF result.success THEN k + 1 ELSE k

\* Line 227: the for loop moves to the next record whatever the result.
for_next(k, result) == k + 1

\* Lines 245-253: the response.
Response(summary, rs) ==
    [statusCode |-> 200,
     message |-> "Batch processing complete",
     recordsProcessed |-> summary.records_processed,
     recordsFailed |-> summary.records_failed,
     results |-> rs]

\* The processor object of invocation i.
Proc(i) == heap[processor[i][1]][1]

\* ------------------------------------------------------------------ state
NoMetrics == [emitted |-> <<>>, warnings |-> 0, raised |-> FALSE]

Init ==
    /\ pc = [i \in Invocations |-> "idle"]
    /\ bucket_name = [i \in Invocations |-> None]
    /\ batch = [i \in Invocations |-> <<>>]
    /\ idx = [i \in Invocations |-> 1]
    /\ processor = [i \in Invocations |-> None]
    /\ heap = [o \in Invocations |-> None]
    /\ results = [i \in Invocations |-> <<>>]
    /\ hist = [i \in Invocations |-> <<>>]
    /\ metrics = [i \in Invocations |-> NoMetrics]
    /\ response = [i \in Invocations |-> None]
    /\ s3 = {}
    /\ clock = 0

\* What hist keeps of an upload: whether it went through and, if so, its key.
Attempt(put) ==
    IF put = None THEN None
    ELSE Some([ok |-> put[1].ok, key |-> IF put[1].ok THEN Some(put[1].key) ELSE None])

\* lambda_handler up to line 226: read the configuration, raise when it is
\* missing, otherwise construct the processor and enter the loop.
Invoke(i, events) ==
    /\ pc[i] = "idle"
    /\ \E event \in events, env \in EnvValues :
          /\ batch' = [batch EXCEPT ![i] = event]
          /\ bucket_name' = [bucket_name EXCEPT ![i] = env]
          /\ IF ConfigMissing(env)
             THEN /\ pc' = [pc EXCEPT ![i] = "raised"]
                  /\ UNCHANGED <<processor, heap>>
             ELSE /\ pc' = [pc EXCEPT ![i] = "loop"]
                  /\ processor' = [processor EXCEPT ![i] = Some(NewProcessorRef(i))]
                  /\ heap' = [heap EXCEPT ![NewProcessorRef(i)] =
                                 Some(StreamProcessor_init(env))]
    /\ UNCHANGED <<idx, results, hist, metrics, response, s3, clock>>

\* One iteration of the for loop, lines 227-233: process_record on the
\* current record, then the append to results.
ProcessRecord(i, suffix, s3ok) ==
    /\ pc[i] = "loop"
    /\ idx[i] <= Len(batch[i])
    /\ LET r == process_record(Proc(i), batch[i][idx[i]], clock, uuid4(i, idx[i]),
                               suffix, s3ok)
       IN /\ heap' = [heap EXCEPT ![processor[i][1]] = Some(r.self)]
          /\ hist' = [hist EXCEPT ![i] =
                         Append(@, [index |-> idx[i], result |-> r.result,
                                    put |-> Attempt(r.put)])]
          /\ s3' = IF r.put # None /\ r.put[1].ok
                   THEN {o \in s3 : o.key # r.put[1].key}
                        \cup {[key |-> r.put[1].key, owner |-> <<i, idx[i]>>]}
                   ELSE s3
          /\ IF r.raised
             THEN /\ pc' = [pc EXCEPT ![i] = "raised"]
                  /\ UNCHANGED <<results, idx>>
             ELSE /\ results' = [results EXCEPT ![i] = results_append(@, r.result[1])]
                  /\ idx' = [idx EXCEPT ![i] = for_next(@, r.result[1])]
                  /\ UNCHANGED pc
    /\ UNCHANGED <<bucket_name, batch, processor, metrics, response, clock>>

\* lambda_handler after the loop, lines 236-253: the summary, the three
\* metrics, the response.
Finish(i, ok1, ok2, ok3) ==
    /\ pc[i] = "loop"
    /\ idx[i] > Len(batch[i])
    /\ LET summary == get_summary(Proc(i))
           m1 == publish_metrics(metrics[i], "RecordsProcessed",
                                 summary.records_processed, ok1)
           m2 == publish_metrics(m1, "RecordsFailed", summary.records_failed, ok2)
           m3 == publish_metrics(m2, "ProcessingTimeMs", "elapsed", ok3)
       IN /\ metrics' = [metrics EXCEPT ![i] = m3]
          /\ IF m3.raised
             THEN /\ pc' = [pc EXCEPT ![i] = "raised"]
                  /\ UNCHANGED response
             ELSE /\ pc' = [pc EXCEPT ![i] = "done"]
                  /\ response' = [response EXCEPT ![i] = Some(Response(summary, results[i]))]
    /\ UNCHANGED <<bucket_name, batch, idx, processor, heap, results, hist, s3, clock>>

\* A second of wall-clock time passes.
Tick ==
    /\ clock < MaxClock
    /\ clock' = clock + 1
    /\ UNCHANGED <<pc, bucket_name, batch, idx, processor, heap, results, hist,
                   metrics, response, s3>>

\* One invocation, every kind of record.
Next ==
    \/ Invoke("inv1", Batches(Records, MaxBatch))
    \/ \E x \in Suffixes, ok \in BOOLEAN : ProcessRecord("inv1", x, ok)
    \/ \E ok1 \in BOOLEAN, ok2 \in BOOLEAN, ok3 \in BOOLEAN :
          Finish("inv1", ok1, ok2, ok3)
    \/ Tick

Spec == Init /\ [][Next]_vars

\* Invocations interleaved at the granularity of the loop iterations.
NextConc ==
    \/ \E i \in Invocations : Invoke(i, Batches(ConcRecords, MaxConcBatch))
    \/ \E i \in Invocations, x \in Suffixes, ok \in BOOLEAN : ProcessRecord(i, x, ok)
    \/ \E i \in Invocations, ok \in BOOLEAN : Finish(i, ok, ok, ok)
    \/ Tick

SpecConc == Init /\ [][NextConc]_vars

\* ------------------------------------------------------- claim vocabulary
\* The destination bucket setting is present (a bucket identity) / absent.
BucketSet(i) == pc[i] # "idle" /\ bucket_name[i] # None /\ bucket_name[i] # Some("")
BucketAbsent(i) == pc[i] # "idle" /\ bucket_name[i] = None

\* A payload that is valid encoded and parseable data.
PayloadValid(record) == record.data = Some("JsonObject")

\* The calls of process_record of invocation i that returned success / failure,
\* those whose upload went through, and the calls made for the k-th record.
Returned(i) == {j \in 1..Len(hist[i]) : hist[i][j].result # None}
Succeeded(i) == {j \in Returned(i) : hist[i][j].result[1].success}
Failed(i) == {j \in Returned(i) : ~hist[i][j].result[1].success}
Uploaded(i) == {j \in 1..Len(hist[i]) : hist[i][j].put # None /\ hist[i][j].put[1].ok}
UploadFailed(i) == {j \in 1..Len(hist[i]) : hist[i][j].put # None /\ ~hist[i][j].put[1].ok}
CallsFor(i, k) == {j \in 1..Len(hist[i]) : hist[i][j].index = k}

\* The per-record report lambda_handler is to give for a returned call.
Report(h) ==
    [sequenceNumber |-> h.result[1].record_id, success |-> h.result[1].success,
     error |-> h.result[1].error_message]

\* ----------------------------------------------------------------- claims
\* C1: with the bucket setting present, a batch of N records yields a response
\* with exactly N results and recordsProcessed + recordsFailed = N, the
\* handler does not raise, and after k records have been handled
\* records_processed + records_failed = k.
C1_BatchAccounting ==
    \A i \in Invocations :
       /\ BucketSet(i) => pc[i] # "raised"
       /\ pc[i] \in {"loop", "done"} =>
             /\ Proc(i).records_processed + Proc(i).records_failed = Len(hist[i])
             /\ Len(results[i]) = Len(hist[i])
       /\ pc[i] = "done" =>
             /\ response[i] # None
             /\ Len(response[i][1].results) = Len(batch[i])
             /\ response[i][1].recordsProcessed + response[i][1].recordsFailed
                   = Len(batch[i])

C1_Witness ==
    \E i \in Invocations :
       /\ pc[i] = "done" /\ Len(batch[i]) = 2
       /\ response[i][1].recordsProcessed = 1 /\ response[i][1].recordsFailed = 1

\* C2: a decode, parse or storage-write failure of a record is returned by
\* process_record as a failure result; nothing is raised out of process_record
\* or lambda_handler, and the records after the failing one are processed:
\* the j-th call is for the j-th record and a finished batch had every
\* record processed.
C2_FailureIsolated ==
    \A i \in Invocations :
       /\ BucketSet(i) => pc[i] # "raised"
       /\ \A j \in 1..Len(hist[i]) :
             /\ hist[i][j].result # None
             /\ hist[i][j].index = j
             /\ (~PayloadValid(batch[i][j]) \/ j \in UploadFailed(i)) =>
                   /\ ~hist[i][j].result[1].success
                   /\ hist[i][j].result[1].error_message # None
       /\ pc[i] = "loop" => Len(hist[i]) = idx[i] - 1
       /\ pc[i] = "done" => Len(hist[i]) = Len(batch[i])

C2_Witness ==
    \E i \in Invocations :
       /\ pc[i] = "done" /\ Len(batch[i]) = 2
       /\ 1 \in UploadFailed(i) /\ 1 \in Failed(i)
       /\ Succeeded(i) = {2}

\* C3: with the bucket setting absent lambda_handler raises before any record
\* is touched: no process_record call, no upload, no metric, no processor and
\* so no counter, no result and no response, whatever the batch.
C3_MissingConfigAborts ==
    \A i \in Invocations :
       BucketAbsent(i) =>
          /\ pc[i] = "raised"
          /\ hist[i] = <<>> /\ results[i] = <<>>
          /\ processor[i] = None /\ heap[i] = None
          /\ metrics[i] = NoMetrics
          /\ response[i] = None
          /\ ~\E o \in s3 : o.owner[1] = i

C3_Witness ==
    \E i \in Invocations :
       BucketAbsent(i) /\ pc[i] = "raised" /\ Len(batch[i]) = 2

\* C4: a record whose payload is missing or is not valid encoded, parseable
\* data yields success = false with a non-empty error description, counts as
\* failed only (the counters are the numbers of failure and of success
\* results), and no upload is attempted for it.
C4_InvalidPayloadFails ==
    \A i \in Invocations :
       /\ pc[i] \in {"loop", "done"} =>
             /\ Proc(i).records_failed = Cardinality(Failed(i))
             /\ Proc(i).records_processed = Cardinality(Succeeded(i))
       /\ \A j \in 1..Len(hist[i]) :
             ~PayloadValid(batch[i][hist[i][j].index]) =>
                /\ j \in Failed(i)
                /\ hist[i][j].result[1].error_message # None
                /\ hist[i][j].result[1].error_message # Some("")
                /\ hist[i][j].put = None
                /\ ~\E o \in s3 : o.owner = <<i, hist[i][j].index>>
                /\ j <= Len(results[i]) =>
                      /\ ~results[i][j].success
                      /\ results[i][j].error = hist[i][j].result[1].error_message

C4_Witness ==
    \E i \in Invocations :
       /\ pc[i] = "done" /\ Len(batch[i]) = 2
       /\ batch[i][1].data = Some("NonUtf8Bytes")
       /\ batch[i][2].data = Some("NotJsonText")
       /\ response[i][1].recordsFailed = 2 /\ response[i][1].recordsProcessed = 0

C6_MetricFailureSwallowed ==
    \A i \in Invocations :
       /\ BucketSet(i) => pc[i] # "raised"
       /\ pc[i] = "done" =>
             /\ Len(metrics[i].emitted) + metrics[i].warnings = 3
             /\ response[i] # None
             /\ response[i][1] =
                   [statusCode |-> 200,
                    message |-> "Batch processing complete",
                    recordsProcessed |-> Cardinality(Succeeded(i)),
                    recordsFailed |-> Cardinality(Failed(i)),
                    results |-> [j \in 1..Len(hist[i]) |-> Report(hist[i][j])]]

C6_Witness ==
    \E i \in Invocations :
       /\ pc[i] = "done" /\ metrics[i].warnings = 2
       /\ metrics[i].emitted = <<<<"RecordsFailed", 1>>>>
       /\ Len(batch[i]) = 2 /\ Succeeded(i) = {2}

\* C7: results keeps the order of the batch: results[k] carries the sequence
\* number of the k-th record when it has one, and its success flag says
\* whether that record's payload was valid and its upload went through.
C7_OrderPreserved ==
    \A i \in Invocations :
       /\ pc[i] = "done" => response[i][1].results = results[i]
       /\ Len(results[i]) <= Len(batch[i])
       /\ \A k \in 1..Len(results[i]) :
             /\ batch[i][k].sequenceNumber # None =>
                   results[i][k].sequenceNumber = batch[i][k].sequenceNumber[1]
             /\ results[i][k].success <=>
                   /\ PayloadValid(batch[i][k])
                   /\ \E j \in Uploaded(i) : hist[i][j].index = k

C7_Witness ==
    \E i \in Invocations :
       /\ pc[i] = "done" /\ Len(batch[i]) = 2
       /\ batch[i][1].sequenceNumber = Some("s2")
       /\ batch[i][2].sequenceNumber = Some("s1")
       /\ ~response[i][1].results[1].success
       /\ response[i][1].results[2].success

C9_UniqueKeys ==
    \A i \in Invocations, j \in Invocations :
       \A a \in Uploaded(i), b \in Uploaded(j) :
          (i # j \/ a # b) => hist[i][a].put[1].key # hist[j][b].put[1].key

\* C10: each invocation has a processor of its own, starting at zero, and
\* the counts of its response are those of the records of its own batch.
C10_OwnState ==
    \A i \in Invocations :
       /\ \A j \in Invocations :
             (i # j /\ processor[i] # None) => processor[i] # processor[j]
       /\ pc[i] \in {"loop", "done"} =>
             /\ Proc(i).records_processed = Cardinality(Succeeded(i))
             /\ Proc(i).records_failed = Cardinality(Failed(i))
       /\ pc[i] = "done" =>
             /\ response[i][1].recordsProcessed = Cardinality(Succeeded(i))
             /\ response[i][1].recordsFailed = Cardinality(Failed(i))
             /\ response[i][1].recordsProcessed + response[i][1].recordsFailed
                   = Len(batch[i])

C10_Witness ==
    /\ pc["inv1"] = "done" /\ pc["inv2"] = "done"
    /\ response["inv1"][1].recordsProcessed = 1 /\ response["inv1"][1].recordsFailed = 0
    /\ response["inv2"][1].recordsProcessed = 0 /\ response["inv2"][1].recordsFailed = 1

====
